---- MODULE Spec2Model ----
(***************************************************************************)
(* Usage-metering gate of core/usage_interceptor.go: the unary and stream  *)
(* interceptors that wrap a handler in preUsageFunc / postUsageFunc, and   *)
(* the two hooks themselves.  Each in-flight RPC is one call c; the        *)
(* account store, the provisioning service (powergate) and the billing     *)
(* ledger are collaborators whose answers are chosen nondeterministically. *)
(***************************************************************************)
EXTENDS Integers, Sequences, FiniteSets, TLC

\* ---------------------------------------------------------------------
\* Bounds of the model
\* ---------------------------------------------------------------------
FreeN == 2
TotalN == 3
MaxDelta == 2

Calls == {"c1", "c2"}
FirstCall == "c1"

\* ---------------------------------------------------------------------
\* Optional values (Go nil pointers / "ok" results)
\* ---------------------------------------------------------------------
None == << >>
Some(x) == << x >>
IsSome(o) == Len(o) = 1
Get(o) == o[1]

\* ---------------------------------------------------------------------
\* Errors
\* ---------------------------------------------------------------------
NoErr == "nil"
ErrNoDocuments == "mongo: no documents in result"
ErrUnavailable == "ledger unavailable"
PermissionDenied == "PermissionDenied: Bad API key"
FailedPrecondition == "FailedPrecondition"
ResourceExhausted == "ResourceExhausted"
ErrPow == "powergate create user failed"
ErrCreateUser == "create user failed"
ErrCreateCustomer == "create customer failed"
ErrIncUsage == "inc customer usage failed"
ErrHandler == "handler failed"

\* ---------------------------------------------------------------------
\* Methods
\* ---------------------------------------------------------------------
authIgnoredMethods == {"/api.hubd.pb.APIService/Signin"}
usageIgnoredMethods == {"/api.usersd.pb.APIService/GetUsage"}

StorageWriteMethods ==
    { "/api.bucketsd.pb.APIService/Create",
      "/api.bucketsd.pb.APIService/PushPath",
      "/api.bucketsd.pb.APIService/SetPath",
      "/api.bucketsd.pb.APIService/Remove",
      "/api.bucketsd.pb.APIService/RemovePath",
      "/api.bucketsd.pb.APIService/PushPathAccessRoles" }

RecordReadMethods ==
    { "/threads.pb.API/Verify",
      "/threads.pb.API/Has",
      "/threads.pb.API/Find",
      "/threads.pb.API/FindByID",
      "/threads.pb.API/ReadTransaction",
      "/threads.pb.API/Listen" }

RecordWriteMethods ==
    { "/threads.pb.API/Create",
      "/threads.pb.API/Save",
      "/threads.pb.API/Delete",
      "/threads.pb.API/WriteTransaction" }

\* The methods calls are made with: one or two of every class.
Methods ==
    { "/api.hubd.pb.APIService/Signin",
      "/api.usersd.pb.APIService/GetUsage",
      "/api.bucketsd.pb.APIService/Create",
      "/api.bucketsd.pb.APIService/Remove",
      "/threads.pb.API/Find",
      "/threads.pb.API/Create",
      "/api.bucketsd.pb.APIService/List" }

Exempt(m) == m \in authIgnoredMethods \/ m \in usageIgnoredMethods

\* ---------------------------------------------------------------------
\* Accounts (mdb.Account) and the account pair carried by the context
\* ---------------------------------------------------------------------
UserKey == "u1"
OrgKey == "o1"
Keys == {UserKey, OrgKey}
ParentKey == "p1"

Acc(k, t, created, pow) ==
    [Key |-> k, Type |-> t, CreatedAt |-> created, PowInfo |-> pow]

OrgAcc == Acc(OrgKey, "Org", 1, None)

UserAccs ==
    { Acc(UserKey, "User", 0, None),
      Acc(UserKey, "User", 1, None),
      Acc(UserKey, "Dev", 0, None),
      Acc(UserKey, "Dev", 1, None) }

\* What mdb.AccountFromContext can return: no account, a user alone, or a
\* user acting for an organisation.
AccountInputs ==
    { None }
    \cup { Some([User |-> u, Org |-> None]) : u \in UserAccs }
    \cup { Some([User |-> u, Org |-> Some(OrgAcc)]) :
             u \in { a \in UserAccs : a.Type = "User" } }

\* Account.Owner(): the organisation when there is one, else the user.
Owner(account) == IF IsSome(account.Org) THEN Get(account.Org) ELSE account.User

\* ---------------------------------------------------------------------
\* Customers (billing ledger records)
\* ---------------------------------------------------------------------
Statuses == {"active", "canceled"}

\* common.StatusCheck: nil for a subscription in good standing.
StatusCheck(status) == IF status = "active" THEN NoErr ELSE "subscription canceled"

FreeVals == {0, FreeN}
TotalVals == {0, TotalN}

Usage(free, total) == [Free |-> free, Total |-> total]

Customers ==
    { [SubscriptionStatus |-> s, Billable |-> b,
       DailyUsage |-> [network_egress |-> Usage(e, 0),
                       stored_data |-> Usage(sf, st),
                       instance_reads |-> Usage(r, 0),
                       instance_writes |-> Usage(w, 0)]] :
        s \in Statuses, b \in BOOLEAN, e \in FreeVals, sf \in FreeVals,
        st \in TotalVals, r \in FreeVals, w \in FreeVals }

\* ---------------------------------------------------------------------
\* Call contexts
\* ---------------------------------------------------------------------
\* buckets.BucketOwner, the quota snapshot.
BucketOwner(used, available, delta) ==
    [StorageUsed |-> used, StorageAvailable |-> available, StorageDelta |-> delta]

Deltas == (0 - MaxDelta) .. MaxDelta

Ctx(account, apiKey, owner) == [account |-> account, apiKey |-> apiKey, owner |-> owner]

ContextInputs ==
    { Ctx(a, k, o) :
        a \in AccountInputs,
        k \in { None, Some([Owner |-> ParentKey]) },
        o \in { None, Some(BucketOwner(0, 0, 0)) } }

EmptyCtx == Ctx(None, None, None)

\* ---------------------------------------------------------------------
\* State
\* ---------------------------------------------------------------------
VARIABLES
    bc,         \* t.bc # nil: a billing client is configured
    pc,         \* t.pc # nil: a powergate (provisioning) client is configured
    at,         \* per call: where the interceptor is
    method,     \* per call: info.FullMethod
    kind,       \* per call: "unary" or "stream"
    ctx,        \* per call: the context the call arrived with
    newCtx,     \* per call: the hook's working context, then the one it returned
    powInfo,    \* per call: the local powInfo of preUsageFunc
    cus,        \* per call: the customer preUsageFunc obtained
    err,        \* per call: the error returned to the caller
    resp,       \* per call: the response returned to the caller
    hist,       \* per call: hook and handler entries and returns, in order
    ops,        \* per call: the collaborator operations invoked, in order
    users,      \* account store: the records CreateUser persisted
    issued,     \* provisioning service: number of identities issued
    created,    \* billing ledger: keys CreateCustomer created a customer for
    usage       \* billing ledger: stored_data usage added per key

config == << bc, pc >>
inputs == << method, kind, ctx >>
stores == << users, issued, created, usage >>
vars == << bc, pc, at, method, kind, ctx, newCtx, powInfo, cus, err, resp,
           hist, ops, users, issued, created, usage >>

Upd(f, c, v) == [f EXCEPT ![c] = v]

\* One collaborator operation: its name, the key and options it was given
\* and the error it answered with.
Op(name, key, parent, deltas, e) ==
    [op |-> name, key |-> key, parent |-> parent, deltas |-> deltas, err |-> e]

logOp(c, o) == ops' = Upd(ops, c, Append(ops[c], o))

Init ==
    /\ bc \in BOOLEAN
    /\ pc \in BOOLEAN
    /\ at = [c \in Calls |-> "idle"]
    /\ method = [c \in Calls |-> ""]
    /\ kind = [c \in Calls |-> ""]
    /\ ctx = [c \in Calls |-> EmptyCtx]
    /\ newCtx = [c \in Calls |-> EmptyCtx]
    /\ powInfo = [c \in Calls |-> None]
    /\ cus = [c \in Calls |-> None]
    /\ err = [c \in Calls |-> NoErr]
    /\ resp = [c \in Calls |-> None]
    /\ hist = [c \in Calls |-> << >>]
    /\ ops = [c \in Calls |-> << >>]
    /\ users = << >>
    /\ issued = 0
    /\ created = {}
    /\ usage = [k \in Keys |-> 0]

\* ---------------------------------------------------------------------
\* preUsageFunc, the parts that call no collaborator
\* ---------------------------------------------------------------------
\* Variant: the usage-exempt list is not consulted.
preSkipsAuthOnly(bcSet, m, cx) ==
    \/ ~bcSet
    \/ m \in authIgnoredMethods
    \/ ~IsSome(cx.account)

\* Lines 57-73: metering disabled, exempt method, or no account in context.
preSkips(bcSet, m, cx) ==
    \/ ~bcSet
    \/ m \in authIgnoredMethods
    \/ m \in usageIgnoredMethods
    \/ ~IsSome(cx.account)

\* Line 76: a user that was never persisted.
isNewUser(account) == account.User.CreatedAt = 0 /\ account.User.Type = "User"

\* Line 97: the lookup error that means "no such customer".
isNoDocuments(e) == e = ErrNoDocuments

\* Variant: the API key is demanded of developers instead of users.
needsAPIKeyOfDev(cx) == Owner(Get(cx.account)).Type = "Dev"

\* Lines 101-105: a user-owned customer cannot be created without an API key.
needsAPIKey(cx) == Owner(Get(cx.account)).Type = "User"

\* Variant: the free quantity is handed out to billable customers too.
newBucketOwnerAlwaysFree(cu) ==
    BucketOwner(cu.DailyUsage["stored_data"].Total,
                cu.DailyUsage["stored_data"].Free,
                0)

\* Lines 135-143: the quota snapshot of a storage-write call.
newBucketOwner(cu) ==
    BucketOwner(cu.DailyUsage["stored_data"].Total,
                IF cu.Billable THEN 0 - 1 ELSE cu.DailyUsage["stored_data"].Free,
                0)

\* Variant: the record-write case tests the instance_reads counter.
categoryCheckWritesOnReads(cx, cu, m) ==
    IF m \in StorageWriteMethods
    THEN [ctx |-> [cx EXCEPT !.owner = Some(newBucketOwner(cu))], err |-> NoErr]
    ELSE IF m \in RecordReadMethods \/ m \in RecordWriteMethods
    THEN IF ~cu.Billable /\ cu.DailyUsage["instance_reads"].Free = 0
         THEN [ctx |-> cx, err |-> ResourceExhausted]
         ELSE [ctx |-> cx, err |-> NoErr]
    ELSE [ctx |-> cx, err |-> NoErr]

\* Variant: the record-read case tests the counter of billable customers too.
categoryCheckBillableReads(cx, cu, m) ==
    IF m \in StorageWriteMethods
    THEN [ctx |-> [cx EXCEPT !.owner = Some(newBucketOwner(cu))], err |-> NoErr]
    ELSE IF m \in RecordReadMethods
    THEN IF cu.DailyUsage["instance_reads"].Free = 0
         THEN [ctx |-> cx, err |-> ResourceExhausted]
         ELSE [ctx |-> cx, err |-> NoErr]
    ELSE IF m \in RecordWriteMethods
    THEN IF ~cu.Billable /\ cu.DailyUsage["instance_writes"].Free = 0
         THEN [ctx |-> cx, err |-> ResourceExhausted]
         ELSE [ctx |-> cx, err |-> NoErr]
    ELSE [ctx |-> cx, err |-> NoErr]

\* Lines 128-164: the per-category switch.
categoryCheck(cx, cu, m) ==
    IF m \in StorageWriteMethods
    THEN [ctx |-> [cx EXCEPT !.owner = Some(newBucketOwner(cu))], err |-> NoErr]
    ELSE IF m \in RecordReadMethods
    THEN IF ~cu.Billable /\ cu.DailyUsage["instance_reads"].Free = 0
         THEN [ctx |-> cx, err |-> ResourceExhausted]
         ELSE [ctx |-> cx, err |-> NoErr]
    ELSE IF m \in RecordWriteMethods
    THEN IF ~cu.Billable /\ cu.DailyUsage["instance_writes"].Free = 0
         THEN [ctx |-> cx, err |-> ResourceExhausted]
         ELSE [ctx |-> cx, err |-> NoErr]
    ELSE [ctx |-> cx, err |-> NoErr]

\* Variant: the egress test comes before the status check.
quotaCheckEgressFirst(cx, cu, m) ==
    IF ~cu.Billable /\ cu.DailyUsage["network_egress"].Free = 0
    THEN [ctx |-> cx, err |-> ResourceExhausted]
    ELSE IF StatusCheck(cu.SubscriptionStatus) # NoErr
    THEN [ctx |-> cx, err |-> FailedPrecondition]
    ELSE categoryCheck(cx, cu, m)

\* Variant: the egress test is made for record methods only.
quotaCheckEgressRecordsOnly(cx, cu, m) ==
    IF StatusCheck(cu.SubscriptionStatus) # NoErr
    THEN [ctx |-> cx, err |-> FailedPrecondition]
    ELSE IF /\ m \in RecordReadMethods \cup RecordWriteMethods
            /\ ~cu.Billable /\ cu.DailyUsage["network_egress"].Free = 0
    THEN [ctx |-> cx, err |-> ResourceExhausted]
    ELSE categoryCheck(cx, cu, m)

\* Lines 119-164: what preUsageFunc returns once it holds the customer.
quotaCheck(cx, cu, m) ==
    IF StatusCheck(cu.SubscriptionStatus) # NoErr
    THEN [ctx |-> cx, err |-> FailedPrecondition]
    ELSE IF ~cu.Billable /\ cu.DailyUsage["network_egress"].Free = 0
    THEN [ctx |-> cx, err |-> ResourceExhausted]
    ELSE categoryCheck(cx, cu, m)

\* Variant: the delta of any snapshot is committed, whatever the method.
postUsageFuncAnyMethod(bcSet, cx, m) ==
    IF ~bcSet THEN None
    ELSE IF m \in authIgnoredMethods THEN None
    ELSE IF ~IsSome(cx.account) THEN None
    ELSE IF ~IsSome(cx.owner) THEN None
    ELSE Some([key |-> Owner(Get(cx.account)).Key,
               deltas |-> [stored_data |-> Get(cx.owner).StorageDelta]])

\* Variant: the increment is booked on the calling user, not on the owner.
postUsageFuncUserKey(bcSet, cx, m) ==
    IF ~bcSet THEN None
    ELSE IF m \in authIgnoredMethods THEN None
    ELSE IF ~IsSome(cx.account) THEN None
    ELSE IF ~IsSome(cx.owner) THEN None
    ELSE IF m \in StorageWriteMethods
    THEN Some([key |-> Get(cx.account).User.Key,
               deltas |-> [stored_data |-> Get(cx.owner).StorageDelta]])
    ELSE None

\* ---------------------------------------------------------------------
\* postUsageFunc up to its ledger call: the IncCustomerUsage call it makes,
\* or None when it returns nil without calling the ledger (lines 167-196).
\* ---------------------------------------------------------------------
postUsageFunc(bcSet, cx, m) ==
    IF ~bcSet THEN None
    ELSE IF m \in authIgnoredMethods THEN None
    ELSE IF ~IsSome(cx.account) THEN None
    ELSE IF ~IsSome(cx.owner) THEN None
    ELSE IF m \in StorageWriteMethods
    THEN Some([key |-> Owner(Get(cx.account)).Key,
               deltas |-> [stored_data |-> Get(cx.owner).StorageDelta]])
    ELSE None

\* ---------------------------------------------------------------------
\* The interceptors' handling of what the hooks and the handler return.
\* h is the call's history up to the return.
\* ---------------------------------------------------------------------
\* Variant: the pre-hook's error is dropped and the handler called anyway.
preReturnIgnoringErr(c, cx, e, h) ==
    /\ newCtx' = Upd(newCtx, c, cx)
    /\ UNCHANGED << resp, err >>
    /\ at' = Upd(at, c, "handler")
    /\ hist' = Upd(hist, c, Append(h, IF e # NoErr THEN "preErr" ELSE "preOk"))

\* Lines 25-28 and 42-45: a pre-hook error ends the call, else the handler
\* is called with the returned context.
preReturn(c, cx, e, h) ==
    /\ newCtx' = Upd(newCtx, c, cx)
    /\ resp' = resp
    /\ IF e # NoErr
       THEN /\ at' = Upd(at, c, "done")
            /\ err' = Upd(err, c, e)
            /\ hist' = Upd(hist, c, Append(h, "preErr"))
       ELSE /\ at' = Upd(at, c, "handler")
            /\ err' = err
            /\ hist' = Upd(hist, c, Append(h, "preOk"))

\* preUsageFunc goes on to its next collaborator call.
preContinue(c, cx, next, h) ==
    /\ newCtx' = Upd(newCtx, c, cx)
    /\ at' = Upd(at, c, next)
    /\ hist' = Upd(hist, c, h)
    /\ UNCHANGED << err, resp >>

\* Variant: the post-hook is called whatever the handler returned.
handlerReturnAlwaysPost(c, e, h) ==
    /\ UNCHANGED << resp, err >>
    /\ at' = Upd(at, c, "post")
    /\ hist' = Upd(hist, c, Append(h, IF e # NoErr THEN "handlerErr" ELSE "handlerOk"))

\* Lines 29-32 and 48-51: a handler error ends the call, else the post-hook
\* is called.
handlerReturn(c, e, h) ==
    /\ resp' = resp
    /\ IF e # NoErr
       THEN /\ at' = Upd(at, c, "done")
            /\ err' = Upd(err, c, e)
            /\ hist' = Upd(hist, c, Append(h, "handlerErr"))
       ELSE /\ at' = Upd(at, c, "post")
            /\ err' = err
            /\ hist' = Upd(hist, c, Append(h, "handlerOk"))

\* Variant: the post-hook's error is dropped and the call succeeds.
postReturnSwallowing(c, e, h) ==
    /\ at' = Upd(at, c, "done")
    /\ err' = Upd(err, c, NoErr)
    /\ resp' = Upd(resp, c, IF kind[c] = "unary" THEN Some("res") ELSE None)
    /\ hist' = Upd(hist, c, Append(h, IF e = NoErr THEN "postOk" ELSE "postErr"))

\* Lines 33-36 and 52: the post-hook's error is the call's error; a unary
\* call returns the handler's response only when there is none.
postReturn(c, e, h) ==
    /\ at' = Upd(at, c, "done")
    /\ err' = Upd(err, c, e)
    /\ resp' = Upd(resp, c, IF e = NoErr /\ kind[c] = "unary" THEN Some("res") ELSE None)
    /\ hist' = Upd(hist, c, Append(h, IF e = NoErr THEN "postOk" ELSE "postErr"))

\* ---------------------------------------------------------------------
\* Actions
\* ---------------------------------------------------------------------
\* Variant: a call without account is refused.
preEnterUnauthenticated(c, m, cx) ==
    IF bc /\ ~Exempt(m) /\ ~IsSome(cx.account)
    THEN preReturn(c, cx, "Unauthenticated", << "pre" >>)
    ELSE IF preSkips(bc, m, cx)
    THEN preReturn(c, cx, NoErr, << "pre" >>)
    ELSE IF isNewUser(Get(cx.account))
    THEN preContinue(c, cx, IF pc THEN "powCreate" ELSE "createUser", << "pre" >>)
    ELSE preContinue(c, cx, "getCustomer", << "pre" >>)

\* Variant: the provisioning service is never asked for an identity.
preEnterNoProvisioning(c, m, cx) ==
    IF preSkips(bc, m, cx)
    THEN preReturn(c, cx, NoErr, << "pre" >>)
    ELSE IF isNewUser(Get(cx.account))
    THEN preContinue(c, cx, "createUser", << "pre" >>)
    ELSE preContinue(c, cx, "getCustomer", << "pre" >>)

\* preUsageFunc lines 56-76, entered from an interceptor with method m and
\* context cx: return at once, or go on to provisioning or to the ledger.
preEnter(c, m, cx) ==
    IF preSkips(bc, m, cx)
    THEN preReturn(c, cx, NoErr, << "pre" >>)
    ELSE IF isNewUser(Get(cx.account))
    THEN preContinue(c, cx, IF pc THEN "powCreate" ELSE "createUser", << "pre" >>)
    ELSE preContinue(c, cx, "getCustomer", << "pre" >>)

\* A call arrives at the interceptor of kind k.
intercept(c, k) ==
    /\ at[c] = "idle"
    /\ \E m \in Methods, cx \in ContextInputs :
          /\ method' = Upd(method, c, m)
          /\ kind' = Upd(kind, c, k)
          /\ ctx' = Upd(ctx, c, cx)
          /\ preEnter(c, m, cx)
    /\ UNCHANGED << config, powInfo, cus, ops, stores >>

unaryServerInterceptor(c) == intercept(c, "unary")

streamServerInterceptor(c) == intercept(c, "stream")

\* Variant: a provisioning failure is passed over and the user is persisted
\* without identity.
PowCreateContinuing(c) ==
    /\ at[c] = "powCreate"
    /\ \/ /\ logOp(c, Op("Users.Create", "", None, None, NoErr))
          /\ issued' = issued + 1
          /\ powInfo' = Upd(powInfo, c, Some([ID |-> issued + 1, Token |-> issued + 1]))
          /\ preContinue(c, newCtx[c], "createUser", hist[c])
       \/ /\ logOp(c, Op("Users.Create", "", None, None, ErrPow))
          /\ UNCHANGED << issued, powInfo >>
          /\ preContinue(c, newCtx[c], "createUser", hist[c])
    /\ UNCHANGED << config, inputs, cus, users, created, usage >>

\* Variant: provisioning waits while another call is persisting its user.
PowCreateLocked(c) ==
    /\ at[c] = "powCreate"
    /\ \A o \in Calls \ {c} : at[o] # "createUser"
    /\ \/ /\ logOp(c, Op("Users.Create", "", None, None, NoErr))
          /\ issued' = issued + 1
          /\ powInfo' = Upd(powInfo, c, Some([ID |-> issued + 1, Token |-> issued + 1]))
          /\ preContinue(c, newCtx[c], "createUser", hist[c])
       \/ /\ logOp(c, Op("Users.Create", "", None, None, ErrPow))
          /\ UNCHANGED << issued, powInfo >>
          /\ preReturn(c, newCtx[c], ErrPow, hist[c])
    /\ UNCHANGED << config, inputs, cus, users, created, usage >>

\* Lines 78-85: t.pc.Admin.Users.Create.
PowCreate(c) ==
    /\ at[c] = "powCreate"
    /\ \/ /\ logOp(c, Op("Users.Create", "", None, None, NoErr))
          /\ issued' = issued + 1
          /\ powInfo' = Upd(powInfo, c, Some([ID |-> issued + 1, Token |-> issued + 1]))
          /\ preContinue(c, newCtx[c], "createUser", hist[c])
       \/ /\ logOp(c, Op("Users.Create", "", None, None, ErrPow))
          /\ UNCHANGED << issued, powInfo >>
          /\ preReturn(c, newCtx[c], ErrPow, hist[c])
    /\ UNCHANGED << config, inputs, cus, users, created, usage >>

\* Accounts.CreateUser: the record it persists and returns.
newUser(key, pow) == Acc(key, "User", 1, pow)

\* Lines 86-92: t.collections.Accounts.CreateUser, then the account in the
\* context is replaced by the persisted one.
CreateUser(c) ==
    /\ at[c] = "createUser"
    /\ LET account == Get(newCtx[c].account)
           user == newUser(account.User.Key, powInfo[c])
       IN \/ /\ logOp(c, Op("CreateUser", account.User.Key, None, None, NoErr))
             /\ users' = Append(users, user)
             /\ preContinue(c, [newCtx[c] EXCEPT !.account =
                                   Some([User |-> user, Org |-> account.Org])],
                            "getCustomer", hist[c])
          \/ /\ logOp(c, Op("CreateUser", account.User.Key, None, None, ErrCreateUser))
             /\ users' = users
             /\ preReturn(c, newCtx[c], ErrCreateUser, hist[c])
    /\ UNCHANGED << config, inputs, powInfo, cus, issued, created, usage >>

\* Lines 119-164 once GetCustomer answered with the customer cu.
gotCustomer(c, cu) ==
    LET r == quotaCheck(newCtx[c], cu, method[c])
    IN /\ logOp(c, Op("GetCustomer", Owner(Get(newCtx[c].account)).Key, None, None, NoErr))
       /\ cus' = Upd(cus, c, Some(cu))
       /\ preReturn(c, r.ctx, r.err, hist[c])

\* Lines 95-107 and 115-117: the first t.bc.GetCustomer and what each answer
\* leads to.
GetCustomer(c) ==
    /\ at[c] = "getCustomer"
    /\ LET key == Owner(Get(newCtx[c].account)).Key
       IN \/ \E cu \in Customers : gotCustomer(c, cu)
          \/ \E e \in IF key \in created THEN {ErrUnavailable}
                                        ELSE {ErrNoDocuments, ErrUnavailable} :
                   /\ logOp(c, Op("GetCustomer", key, None, None, e))
                   /\ cus' = cus
                   /\ IF ~isNoDocuments(e)
                      THEN preReturn(c, newCtx[c], e, hist[c])
                      ELSE IF needsAPIKey(newCtx[c]) /\ ~IsSome(newCtx[c].apiKey)
                      THEN preReturn(c, newCtx[c], PermissionDenied, hist[c])
                      ELSE preContinue(c, newCtx[c], "createCustomer", hist[c])
    /\ UNCHANGED << config, inputs, powInfo, stores >>

\* Variant: the customer is looked up again also after a failed creation.
CreateCustomerThenLookup(c) ==
    /\ at[c] = "createCustomer"
    /\ LET cx == newCtx[c]
           key == Owner(Get(cx.account)).Key
           parent == IF needsAPIKey(cx) THEN Some(Get(cx.apiKey).Owner) ELSE None
       IN \/ /\ logOp(c, Op("CreateCustomer", key, parent, None, NoErr))
             /\ created' = created \cup {key}
             /\ preContinue(c, cx, "getCustomerAgain", hist[c])
          \/ /\ logOp(c, Op("CreateCustomer", key, parent, None, ErrCreateCustomer))
             /\ created' = created
             /\ preContinue(c, cx, "getCustomerAgain", hist[c])
    /\ UNCHANGED << config, inputs, powInfo, cus, users, issued, usage >>

\* Variant: the parent-key option is never added.
CreateCustomerNoParent(c) ==
    /\ at[c] = "createCustomer"
    /\ LET cx == newCtx[c]
           key == Owner(Get(cx.account)).Key
       IN \/ /\ logOp(c, Op("CreateCustomer", key, None, None, NoErr))
             /\ created' = created \cup {key}
             /\ preContinue(c, cx, "getCustomerAgain", hist[c])
          \/ /\ logOp(c, Op("CreateCustomer", key, None, None, ErrCreateCustomer))
             /\ created' = created
             /\ preReturn(c, cx, ErrCreateCustomer, hist[c])
    /\ UNCHANGED << config, inputs, powInfo, cus, users, issued, usage >>

\* Lines 98-110: t.bc.CreateCustomer with the owner's key and, for a user,
\* the API key's owner as parent key.
CreateCustomer(c) ==
    /\ at[c] = "createCustomer"
    /\ LET cx == newCtx[c]
           key == Owner(Get(cx.account)).Key
           parent == IF needsAPIKey(cx) THEN Some(Get(cx.apiKey).Owner) ELSE None
       IN \/ /\ logOp(c, Op("CreateCustomer", key, parent, None, NoErr))
             /\ created' = created \cup {key}
             /\ preContinue(c, cx, "getCustomerAgain", hist[c])
          \/ /\ logOp(c, Op("CreateCustomer", key, parent, None, ErrCreateCustomer))
             /\ created' = created
             /\ preReturn(c, cx, ErrCreateCustomer, hist[c])
    /\ UNCHANGED << config, inputs, powInfo, cus, users, issued, usage >>

\* Lines 111-114: the second t.bc.GetCustomer, after the creation.
GetCustomerAgain(c) ==
    /\ at[c] = "getCustomerAgain"
    /\ LET key == Owner(Get(newCtx[c].account)).Key
       IN \/ /\ logOp(c, Op("GetCustomer", key, None, None, ErrUnavailable))
             /\ cus' = cus
             /\ preReturn(c, newCtx[c], ErrUnavailable, hist[c])
          \/ \E cu \in Customers : gotCustomer(c, cu)
    /\ UNCHANGED << config, inputs, powInfo, stores >>

\* Lines 29 and 48: the handler runs with the pre-hook's context; it may
\* record a consumption delta in the quota snapshot, and it may fail.
Handler(c) ==
    /\ at[c] = "handler"
    /\ \E e \in {NoErr, ErrHandler} :
       \E d \in IF IsSome(newCtx[c].owner) THEN Deltas ELSE {0} :
          /\ newCtx' = Upd(newCtx, c,
                IF IsSome(newCtx[c].owner)
                THEN [newCtx[c] EXCEPT !.owner =
                         Some([Get(newCtx[c].owner) EXCEPT !.StorageDelta = d])]
                ELSE newCtx[c])
          /\ handlerReturn(c, e, Append(hist[c], "handler"))
    /\ UNCHANGED << config, inputs, powInfo, cus, ops, stores >>

\* Variant: the ledger counter is set to the snapshot's used quantity plus
\* the delta instead of being incremented.
PostSetFromSnapshot(c) ==
    /\ at[c] = "post"
    /\ LET inc == postUsageFunc(bc, newCtx[c], method[c])
           h == Append(hist[c], "post")
       IN IF ~IsSome(inc)
          THEN /\ postReturn(c, NoErr, h)
               /\ UNCHANGED << ops, usage >>
          ELSE \/ /\ logOp(c, Op("IncCustomerUsage", Get(inc).key, None,
                                  Some(Get(inc).deltas), NoErr))
                  /\ usage' = [usage EXCEPT ![Get(inc).key] =
                                  Get(newCtx[c].owner).StorageUsed
                                     + Get(inc).deltas["stored_data"]]
                  /\ postReturn(c, NoErr, h)
               \/ /\ logOp(c, Op("IncCustomerUsage", Get(inc).key, None,
                                  Some(Get(inc).deltas), ErrIncUsage))
                  /\ usage' = usage
                  /\ postReturn(c, ErrIncUsage, h)
    /\ UNCHANGED << config, inputs, newCtx, powInfo, cus, users, issued, created >>

\* Variant: the commit is refused when it would take the ledger counter
\* beyond the available quantity of the snapshot.
PostWithinQuota(c) ==
    /\ at[c] = "post"
    /\ LET inc == postUsageFunc(bc, newCtx[c], method[c])
           h == Append(hist[c], "post")
       IN IF ~IsSome(inc)
          THEN /\ postReturn(c, NoErr, h)
               /\ UNCHANGED << ops, usage >>
          ELSE IF /\ Get(newCtx[c].owner).StorageAvailable >= 0
                  /\ usage[Get(inc).key] + Get(inc).deltas["stored_data"]
                        > Get(newCtx[c].owner).StorageAvailable
          THEN /\ postReturn(c, ResourceExhausted, h)
               /\ UNCHANGED << ops, usage >>
          ELSE \/ /\ logOp(c, Op("IncCustomerUsage", Get(inc).key, None,
                                  Some(Get(inc).deltas), NoErr))
                  /\ usage' = [usage EXCEPT ![Get(inc).key] =
                                  @ + Get(inc).deltas["stored_data"]]
                  /\ postReturn(c, NoErr, h)
               \/ /\ logOp(c, Op("IncCustomerUsage", Get(inc).key, None,
                                  Some(Get(inc).deltas), ErrIncUsage))
                  /\ usage' = usage
                  /\ postReturn(c, ErrIncUsage, h)
    /\ UNCHANGED << config, inputs, newCtx, powInfo, cus, users, issued, created >>

\* Lines 33 and 52 with postUsageFunc (lines 167-202): the post-hook and,
\* when it makes one, its t.bc.IncCustomerUsage call.
Post(c) ==
    /\ at[c] = "post"
    /\ LET inc == postUsageFunc(bc, newCtx[c], method[c])
           h == Append(hist[c], "post")
       IN IF ~IsSome(inc)
          THEN /\ postReturn(c, NoErr, h)
               /\ UNCHANGED << ops, usage >>
          ELSE \/ /\ logOp(c, Op("IncCustomerUsage", Get(inc).key, None,
                                  Some(Get(inc).deltas), NoErr))
                  /\ usage' = [usage EXCEPT ![Get(inc).key] =
                                  @ + Get(inc).deltas["stored_data"]]
                  /\ postReturn(c, NoErr, h)
               \/ /\ logOp(c, Op("IncCustomerUsage", Get(inc).key, None,
                                  Some(Get(inc).deltas), ErrIncUsage))
                  /\ usage' = usage
                  /\ postReturn(c, ErrIncUsage, h)
    /\ UNCHANGED << config, inputs, newCtx, powInfo, cus, users, issued, created >>

\* ---------------------------------------------------------------------
\* Specification: one call is followed through the gate, over every
\* configuration, method, context and collaborator answer.
\* ---------------------------------------------------------------------
Enter(c) == unaryServerInterceptor(c) \/ streamServerInterceptor(c)

Step(c) ==
    \/ PowCreate(c)
    \/ CreateUser(c)
    \/ GetCustomer(c)
    \/ CreateCustomer(c)
    \/ GetCustomerAgain(c)
    \/ Handler(c)
    \/ Post(c)

Next == \E c \in Calls : (c = FirstCall /\ Enter(c)) \/ Step(c)

Spec == Init /\ [][Next]_vars

\* ---------------------------------------------------------------------
\* Specification of concurrent calls: every call may enter at any time and
\* the calls' steps interleave freely.  The calls are unary storage-write
\* calls of one individual user, persisted or not, with metering enabled
\* and a non-billable customer in good standing.
\* ---------------------------------------------------------------------
ConcMethod == "/api.bucketsd.pb.APIService/Create"

ConcContexts ==
    { Ctx(Some([User |-> u, Org |-> None]), Some([Owner |-> ParentKey]), None) :
        u \in { a \in UserAccs : a.Type = "User" } }

ConcCustomers ==
    { cu \in Customers :
        /\ cu.SubscriptionStatus = "active"
        /\ ~cu.Billable
        /\ \A p \in DOMAIN cu.DailyUsage : cu.DailyUsage[p].Free = FreeN }

\* The account of an arriving call was read from the account store: it has
\* a zero creation time only while no record of the user is persisted.
concInputs(c) ==
    /\ method[c] = ConcMethod
    /\ kind[c] = "unary"
    /\ ctx[c] \in ConcContexts
    /\ isNewUser(Get(ctx[c].account)) => users = << >>

\* The ledger answers a lookup with a customer of ConcCustomers; the total
\* it reports includes what the calls have committed so far, so it is 0
\* only while nothing has been added to the counter.
concAnswers(c) ==
    cus'[c] # cus[c] =>
       /\ Get(cus'[c]) \in ConcCustomers
       /\ Get(cus'[c]).DailyUsage["stored_data"].Total = 0 => usage[UserKey] <= 0

InitConc == Init /\ bc

NextConc ==
    \E c \in Calls :
       \/ Enter(c) /\ concInputs(c)'
       \/ Step(c) /\ concAnswers(c)

SpecConc == InitConc /\ [][NextConc]_vars

\* ---------------------------------------------------------------------
\* Properties
\* ---------------------------------------------------------------------
Has(h, x) == \E i \in DOMAIN h : h[i] = x

IsPrefix(p, q) == Len(p) <= Len(q) /\ \A i \in DOMAIN p : p[i] = q[i]

opsNamed(c, name) == SelectSeq(ops[c], LAMBDA o : o.op = name)

\* The complete histories a call may have.
CompleteHistories ==
    { << "pre", "preErr" >>,
      << "pre", "preOk", "handler", "handlerErr" >>,
      << "pre", "preOk", "handler", "handlerOk", "post", "postOk" >>,
      << "pre", "preOk", "handler", "handlerOk", "post", "postErr" >> }

\* C1: in every call, unary or stream, the pre-hook, the handler and the
\* post-hook each run at most once and in that order; the handler is
\* entered only after the pre-hook returned without error and the post-hook
\* only after the handler returned without error.
C1_HookOrder ==
    \A c \in Calls : \E full \in CompleteHistories : IsPrefix(hist[c], full)

C1_Witness ==
    \E c \in Calls :
       /\ kind[c] = "stream"
       /\ hist[c] = << "pre", "preOk", "handler", "handlerOk", "post", "postOk" >>
       /\ Len(ops[c]) > 0

\* C2: once the handler has returned an error the post-hook is never
\* entered and the call makes no IncCustomerUsage call, also when the
\* pre-hook had attached a quota snapshot to the context.
C2_HandlerErrorSkipsPost ==
    \A c \in Calls :
       Has(hist[c], "handlerErr") =>
          /\ ~Has(hist[c], "post")
          /\ opsNamed(c, "IncCustomerUsage") = << >>
          /\ at[c] = "done"
          /\ err[c] = ErrHandler

C2_Witness ==
    \E c \in Calls :
       /\ Has(hist[c], "handlerErr")
       /\ IsSome(cus[c])
       /\ IsSome(newCtx[c].owner)
       /\ Get(newCtx[c].owner).StorageDelta = 1
       /\ kind[c] = "unary"

\* C3: when the pre-hook evaluated a customer for a storage-write call and
\* the handler succeeded, the post-hook makes exactly one IncCustomerUsage
\* call, for the key of the owner of the account the call arrived with,
\* carrying the delta recorded in the snapshot under stored_data alone.
C3_CommitCarriesDelta ==
    \A c \in Calls :
       (method[c] \in StorageWriteMethods /\ IsSome(cus[c]) /\ Has(hist[c], "post")) =>
          LET incs == opsNamed(c, "IncCustomerUsage")
          IN /\ Len(incs) = 1
             /\ incs[1].key = Owner(Get(ctx[c].account)).Key
             /\ incs[1].deltas = Some([stored_data |-> Get(newCtx[c].owner).StorageDelta])

C3_Witness ==
    \E c \in Calls :
       /\ method[c] \in StorageWriteMethods
       /\ IsSome(cus[c])
       /\ Has(hist[c], "postOk")
       /\ IsSome(Get(ctx[c].account).Org)
       /\ Get(newCtx[c].owner).StorageDelta = 0 - 1
       /\ usage[OrgKey] = 0 - 1

\* C4: when the pre-hook lets a storage-write call through after evaluating
\* a customer, the snapshot in the returned context has StorageUsed equal to
\* the customer's stored_data Total and StorageAvailable equal to -1 for a
\* billable customer and to the stored_data Free quantity otherwise.
C4_SnapshotValues ==
    \A c \in Calls :
       (method[c] \in StorageWriteMethods /\ IsSome(cus[c]) /\ Has(hist[c], "preOk")) =>
          /\ IsSome(newCtx[c].owner)
          /\ Get(newCtx[c].owner).StorageUsed = Get(cus[c]).DailyUsage["stored_data"].Total
          /\ Get(newCtx[c].owner).StorageAvailable =
                IF Get(cus[c]).Billable THEN 0 - 1
                ELSE Get(cus[c]).DailyUsage["stored_data"].Free

C4_Witness ==
    \E c \in Calls :
       /\ method[c] \in StorageWriteMethods
       /\ IsSome(cus[c])
       /\ at[c] = "handler"
       /\ Get(cus[c]).Billable
       /\ Get(cus[c]).DailyUsage["stored_data"].Free = FreeN
       /\ Get(cus[c]).DailyUsage["stored_data"].Total = TotalN
       /\ Get(newCtx[c].owner).StorageAvailable = 0 - 1

\* C5: for a method of the identity-exempt or the usage-exempt list neither
\* hook returns an error, the pre-hook returns the context it was given and
\* the call invokes no collaborator operation, whatever the account, the
\* configuration and the snapshot in the context.
C5_ExemptNoOp ==
    \A c \in Calls :
       (Exempt(method[c]) /\ at[c] # "idle") =>
          /\ ops[c] = << >>
          /\ cus[c] = None
          /\ ~Has(hist[c], "preErr")
          /\ ~Has(hist[c], "postErr")
          /\ Has(hist[c], "preOk")
          /\ at[c] = "handler" => newCtx[c] = ctx[c]
          /\ newCtx[c].account = ctx[c].account
          /\ newCtx[c].apiKey = ctx[c].apiKey
          /\ IsSome(newCtx[c].owner) = IsSome(ctx[c].owner)

C5_Witness ==
    \E c \in Calls :
       /\ method[c] \in usageIgnoredMethods
       /\ bc
       /\ IsSome(ctx[c].account)
       /\ isNewUser(Get(ctx[c].account))
       /\ IsSome(ctx[c].owner)
       /\ Has(hist[c], "postOk")

\* The customer the pre-hook of call c obtained (when cus[c] is set).
cusOf(c) == Get(cus[c])

free(c, product) == cusOf(c).DailyUsage[product].Free

\* C6: for a customer that is not billable, has network_egress Free 0 and a
\* valid subscription status, the pre-hook of every call that obtained it
\* fails with ResourceExhausted whatever the method and the other counters;
\* with an invalid status it fails with FailedPrecondition; either way the
\* handler does not run.
C6_EgressBreaker ==
    \A c \in Calls :
       (IsSome(cus[c]) /\ ~cusOf(c).Billable /\ free(c, "network_egress") = 0) =>
          /\ err[c] = IF StatusCheck(cusOf(c).SubscriptionStatus) = NoErr
                      THEN ResourceExhausted ELSE FailedPrecondition
          /\ at[c] = "done"
          /\ ~Has(hist[c], "handler")

C6_Witness ==
    \E c \in Calls :
       /\ IsSome(cus[c])
       /\ ~cusOf(c).Billable
       /\ cusOf(c).SubscriptionStatus = "active"
       /\ free(c, "network_egress") = 0
       /\ free(c, "stored_data") = FreeN
       /\ method[c] \in StorageWriteMethods
       /\ err[c] = ResourceExhausted

\* C6 as stated: a non-billable customer with network_egress Free 0 always
\* makes the pre-hook fail with ResourceExhausted.
C6_AsStated ==
    \A c \in Calls :
       (IsSome(cus[c]) /\ ~cusOf(c).Billable /\ free(c, "network_egress") = 0) =>
          /\ err[c] = ResourceExhausted
          /\ ~Has(hist[c], "handler")

\* C7: for a non-billable customer with a valid subscription status and
\* instance_reads Free 0 the pre-hook of a record-read method fails with
\* ResourceExhausted; if its network_egress Free is not 0 either, the same
\* customer passes the pre-hook of a record-write method whose
\* instance_writes Free is not 0 and of a storage-write method whose
\* stored_data Free is not 0.
C7_CategoriesIndependent ==
    \A c \in Calls :
       ( /\ IsSome(cus[c])
         /\ ~cusOf(c).Billable
         /\ free(c, "instance_reads") = 0
         /\ StatusCheck(cusOf(c).SubscriptionStatus) = NoErr ) =>
          /\ method[c] \in RecordReadMethods =>
                err[c] = ResourceExhausted /\ ~Has(hist[c], "handler")
          /\ ( /\ free(c, "network_egress") # 0
               /\ \/ method[c] \in RecordWriteMethods /\ free(c, "instance_writes") # 0
                  \/ method[c] \in StorageWriteMethods /\ free(c, "stored_data") # 0 ) =>
                Has(hist[c], "preOk")

C7_Witness ==
    \E c \in Calls :
       /\ IsSome(cus[c])
       /\ ~cusOf(c).Billable
       /\ cusOf(c).SubscriptionStatus = "active"
       /\ free(c, "instance_reads") = 0
       /\ free(c, "instance_writes") = FreeN
       /\ free(c, "network_egress") = FreeN
       /\ method[c] \in RecordWriteMethods
       /\ at[c] = "handler"

\* C7 as stated: instance_reads Free 0 of a non-billable customer fails the
\* record-read pre-hook with ResourceExhausted and blocks no record-write or
\* storage-write method whose own counter is not 0.
C7_AsStated ==
    \A c \in Calls :
       (IsSome(cus[c]) /\ ~cusOf(c).Billable /\ free(c, "instance_reads") = 0) =>
          /\ method[c] \in RecordReadMethods => err[c] = ResourceExhausted
          /\ ( \/ method[c] \in RecordWriteMethods /\ free(c, "instance_writes") # 0
               \/ method[c] \in StorageWriteMethods /\ free(c, "stored_data") # 0 ) =>
                Has(hist[c], "preOk")

\* C8: a billable customer with a valid subscription status never makes the
\* pre-hook fail with ResourceExhausted, whatever the method and the Free
\* quantities of its four counters: the pre-hook lets the call through.
C8_BillableNeverExhausted ==
    \A c \in Calls :
       ( /\ IsSome(cus[c])
         /\ cusOf(c).Billable
         /\ StatusCheck(cusOf(c).SubscriptionStatus) = NoErr ) =>
          /\ ~(Has(hist[c], "preErr") /\ err[c] = ResourceExhausted)
          /\ Has(hist[c], "preOk")

C8_Witness ==
    \E c \in Calls :
       /\ IsSome(cus[c])
       /\ cusOf(c).Billable
       /\ cusOf(c).SubscriptionStatus = "active"
       /\ \A p \in DOMAIN cusOf(c).DailyUsage : free(c, p) = 0
       /\ method[c] \in RecordReadMethods
       /\ at[c] = "handler"

\* What a successful pre-hook has done for the never-persisted user that
\* call c arrived with.
provisioned(c) ==
    LET made == opsNamed(c, "CreateUser")
        pow == opsNamed(c, "Users.Create")
        u == Get(newCtx[c].account).User
    IN /\ Len(made) = 1
       /\ made[1].err = NoErr
       /\ made[1].key = Get(ctx[c].account).User.Key
       /\ \E i \in DOMAIN users : users[i] = u
       /\ u.Key = Get(ctx[c].account).User.Key
       /\ u.CreatedAt # 0
       /\ Get(newCtx[c].account).Org = Get(ctx[c].account).Org
       /\ IF pc
          THEN /\ IsSome(u.PowInfo)
               /\ Len(pow) = 1 /\ pow[1].err = NoErr
               /\ Get(u.PowInfo).ID \in 1 .. issued
          ELSE u.PowInfo = None /\ pow = << >>

\* C9: with metering enabled and a method that is not exempt, a pre-hook
\* that succeeds for a user with zero creation time has persisted exactly
\* one account record and returns a context whose account is that record,
\* with non-zero creation time; the record carries an identity issued by
\* the provisioning service when one is configured and none otherwise.
C9_FirstCallProvisions ==
    \A c \in Calls :
       ( /\ IsSome(ctx[c].account)
         /\ isNewUser(Get(ctx[c].account))
         /\ Has(hist[c], "preOk")
         /\ bc
         /\ ~Exempt(method[c]) ) => provisioned(c)

C9_Witness ==
    \E c \in Calls :
       /\ IsSome(ctx[c].account)
       /\ isNewUser(Get(ctx[c].account))
       /\ at[c] = "handler"
       /\ pc
       /\ IsSome(Get(newCtx[c].account).User.PowInfo)
       /\ Len(users) = 1

\* C9 as stated: every pre-hook that succeeds for a user with zero creation
\* time has persisted the account.
C9_AsStated ==
    \A c \in Calls :
       ( /\ IsSome(ctx[c].account)
         /\ isNewUser(Get(ctx[c].account))
         /\ Has(hist[c], "preOk") ) => provisioned(c)

\* C10: when the owner is an individual user, the customer lookup answers
\* "no documents" and the context holds no API key, the pre-hook fails with
\* PermissionDenied, CreateCustomer is not called and the handler does not
\* run.
C10_NoKeyNoCustomer ==
    \A c \in Calls :
       ( /\ \E i \in DOMAIN ops[c] :
               ops[c][i].op = "GetCustomer" /\ ops[c][i].err = ErrNoDocuments
         /\ Owner(Get(ctx[c].account)).Type = "User"
         /\ ~IsSome(ctx[c].apiKey) ) =>
          /\ err[c] = PermissionDenied
          /\ at[c] = "done"
          /\ opsNamed(c, "CreateCustomer") = << >>
          /\ ~Has(hist[c], "handler")

C10_Witness ==
    \E c \in Calls :
       /\ \E i \in DOMAIN ops[c] :
             ops[c][i].op = "GetCustomer" /\ ops[c][i].err = ErrNoDocuments
       /\ Owner(Get(ctx[c].account)).Type = "User"
       /\ ~IsSome(ctx[c].apiKey)
       /\ Len(users) = 1
       /\ err[c] = PermissionDenied

\* The first customer lookup of call c answered "no documents".
lookupMissed(c) ==
    \E i \in DOMAIN ops[c] :
       ops[c][i].op = "GetCustomer" /\ ops[c][i].err = ErrNoDocuments

preReturned(c) == Has(hist[c], "preOk") \/ Has(hist[c], "preErr")

\* Call c is made for an individual user without customer record, with an
\* API key in the context, and its pre-hook has returned.
keyedUserWithoutCustomer(c) ==
    /\ lookupMissed(c)
    /\ Owner(Get(ctx[c].account)).Type = "User"
    /\ IsSome(ctx[c].apiKey)
    /\ preReturned(c)

\* The customer creation of call c: one CreateCustomer for the owner's key
\* with the API key's owner as parent key, right after the missed lookup.
createdWithParent(c) ==
    LET cr == opsNamed(c, "CreateCustomer")
        n == Len(ops[c])
        i == CHOOSE j \in DOMAIN ops[c] : ops[c][j].op = "CreateCustomer"
    IN /\ Len(cr) = 1
       /\ cr[1].key = Owner(Get(ctx[c].account)).Key
       /\ cr[1].parent = Some(Get(ctx[c].apiKey).Owner)
       /\ i > 1
       /\ ops[c][i - 1].op = "GetCustomer" /\ ops[c][i - 1].err = ErrNoDocuments

\* C11: for an individual user without customer record and with an API key
\* in the context the pre-hook creates the customer with the API key's
\* owner as parent key; it fails with the creation's error, else re-fetches
\* the customer and fails with the re-fetch's error, else fails only when
\* the re-fetched customer fails the status check (FailedPrecondition) or a
\* free-quota check (ResourceExhausted), and otherwise succeeds.
C11_CreateThenRefetch ==
    \A c \in Calls :
       keyedUserWithoutCustomer(c) =>
          LET cr == opsNamed(c, "CreateCustomer")
              last == ops[c][Len(ops[c])]
          IN /\ createdWithParent(c)
             /\ IF cr[1].err # NoErr
                THEN /\ Has(hist[c], "preErr") /\ err[c] = cr[1].err
                     /\ last.op = "CreateCustomer"
                     /\ cus[c] = None
                ELSE /\ Len(opsNamed(c, "GetCustomer")) = 2
                     /\ last.op \in {"GetCustomer", "IncCustomerUsage"}
                     /\ opsNamed(c, "GetCustomer")[2].key = cr[1].key
                     /\ IF opsNamed(c, "GetCustomer")[2].err # NoErr
                        THEN /\ Has(hist[c], "preErr")
                             /\ err[c] = opsNamed(c, "GetCustomer")[2].err
                             /\ cus[c] = None
                        ELSE /\ IsSome(cus[c])
                             /\ Has(hist[c], "preErr") <=>
                                   \/ StatusCheck(cusOf(c).SubscriptionStatus) # NoErr
                                   \/ /\ ~cusOf(c).Billable
                                      /\ \/ free(c, "network_egress") = 0
                                         \/ /\ method[c] \in RecordReadMethods
                                            /\ free(c, "instance_reads") = 0
                                         \/ /\ method[c] \in RecordWriteMethods
                                            /\ free(c, "instance_writes") = 0
                             /\ Has(hist[c], "preErr") =>
                                   err[c] \in {FailedPrecondition, ResourceExhausted}

C11_Witness ==
    \E c \in Calls :
       /\ keyedUserWithoutCustomer(c)
       /\ at[c] = "handler"
       /\ IsSome(cus[c])
       /\ Len(users) = 1
       /\ UserKey \in created

\* C11 as stated: with the API key present the pre-hook fails only if the
\* customer creation errors, and otherwise succeeds after creating and
\* re-fetching the customer.
C11_AsStated ==
    \A c \in Calls :
       keyedUserWithoutCustomer(c) =>
          /\ createdWithParent(c)
          /\ IF opsNamed(c, "CreateCustomer")[1].err # NoErr
             THEN Has(hist[c], "preErr")
             ELSE /\ Has(hist[c], "preOk")
                  /\ Len(opsNamed(c, "GetCustomer")) = 2
                  /\ IsSome(cus[c])

\* C12: once the pre-hook holds a customer whose subscription status fails
\* the status check it returns FailedPrecondition, whatever the method, the
\* billable flag and the counters; the handler is not called and the
\* context gets no quota snapshot.
C12_StatusFirst ==
    \A c \in Calls :
       (IsSome(cus[c]) /\ StatusCheck(cusOf(c).SubscriptionStatus) # NoErr) =>
          /\ err[c] = FailedPrecondition
          /\ at[c] = "done"
          /\ hist[c] = << "pre", "preErr" >>
          /\ newCtx[c].owner = ctx[c].owner

C12_Witness ==
    \E c \in Calls :
       /\ IsSome(cus[c])
       /\ cusOf(c).SubscriptionStatus = "canceled"
       /\ ~cusOf(c).Billable
       /\ free(c, "network_egress") = 0
       /\ method[c] \in StorageWriteMethods
       /\ opsNamed(c, "CreateCustomer") # << >>
       /\ err[c] = FailedPrecondition

\* C13: a call whose context holds no account passes the gate untouched,
\* whatever the method: the pre-hook returns the context it was given and
\* no error, the handler is called, the post-hook returns no error, and the
\* call invokes no collaborator operation.
C13_NoAccountShortCircuit ==
    \A c \in Calls :
       (at[c] # "idle" /\ ~IsSome(ctx[c].account)) =>
          /\ ops[c] = << >>
          /\ cus[c] = None
          /\ IsPrefix(<< "pre", "preOk" >>, hist[c])
          /\ ~Has(hist[c], "postErr")
          /\ at[c] = "handler" => newCtx[c] = ctx[c]
          /\ at[c] # "handler" => Has(hist[c], "handler")
          /\ at[c] = "done" => err[c] \in {NoErr, ErrHandler}

C13_Witness ==
    \E c \in Calls :
       /\ ~IsSome(ctx[c].account)
       /\ bc
       /\ method[c] \in StorageWriteMethods
       /\ IsSome(ctx[c].owner)
       /\ Get(newCtx[c].owner).StorageDelta = 1
       /\ Has(hist[c], "postOk")

\* C14: when the IncCustomerUsage call of the post-hook fails after the
\* handler succeeded, the call ends with that error and without response;
\* the increment was attempted once and the ledger is unchanged.
C14_IncrementFailureSurfaces ==
    \A c \in Calls :
       (\E i \in DOMAIN ops[c] :
           ops[c][i].op = "IncCustomerUsage" /\ ops[c][i].err # NoErr) =>
          /\ Has(hist[c], "handlerOk")
          /\ at[c] = "done"
          /\ err[c] = ErrIncUsage
          /\ resp[c] = None
          /\ Len(opsNamed(c, "IncCustomerUsage")) = 1
          /\ ops[c][Len(ops[c])].op = "IncCustomerUsage"

C14_Witness ==
    \E c \in Calls :
       /\ kind[c] = "unary"
       /\ Has(hist[c], "postErr")
       /\ err[c] = ErrIncUsage
       /\ Get(newCtx[c].owner).StorageDelta = MaxDelta

\* The successful IncCustomerUsage calls of call c for key k.
commits(c, k) ==
    SelectSeq(ops[c], LAMBDA o :
       o.op = "IncCustomerUsage" /\ o.err = NoErr /\ o.key = k)

RECURSIVE seqSum(_)
seqSum(q) == IF q = << >> THEN 0
             ELSE Get(Head(q).deltas)["stored_data"] + seqSum(Tail(q))

RECURSIVE committedSum(_, _)
committedSum(S, k) ==
    IF S = {} THEN 0
    ELSE LET c == CHOOSE x \in S : TRUE
         IN seqSum(commits(c, k)) + committedSum(S \ {c}, k)

successful(c, name) ==
    SelectSeq(ops[c], LAMBDA o : o.op = name /\ o.err = NoErr)

RECURSIVE successCount(_, _)
successCount(S, name) ==
    IF S = {} THEN 0
    ELSE LET c == CHOOSE x \in S : TRUE
         IN Len(successful(c, name)) + successCount(S \ {c}, name)

allFinished == \A c \in Calls : at[c] = "done"

\* C15: once all concurrent storage-write calls of the owner have finished,
\* whatever their interleaving, the ledger's stored_data counter of the
\* owner has changed by the sum of the deltas of the calls whose handler
\* and whose increment succeeded, each of which incremented exactly once
\* with the delta of its snapshot; the other calls incremented nothing.
C15_NoLostIncrement ==
    allFinished =>
       /\ \A k \in Keys : usage[k] = committedSum(Calls, k)
       /\ \A c \in Calls :
             IF Has(hist[c], "postOk")
             THEN /\ Len(commits(c, UserKey)) = 1
                  /\ Get(commits(c, UserKey)[1].deltas)["stored_data"]
                        = Get(newCtx[c].owner).StorageDelta
             ELSE commits(c, UserKey) = << >>

C15_Witness ==
    /\ allFinished
    /\ Has(hist["c1"], "postOk")
    /\ Has(hist["c2"], "postOk")
    /\ Get(newCtx["c1"].owner).StorageDelta = MaxDelta
    /\ Get(newCtx["c2"].owner).StorageDelta = 0 - 1
    /\ usage[UserKey] = MaxDelta - 1

\* C16: the gate reserves nothing between evaluation and commit: as long
\* as no call has committed the ledger counter is unchanged, however many
\* calls hold a snapshot, and a call that reached its post-hook can always
\* commit its delta, whatever the other calls committed and whatever
\* available quantity its snapshot shows.
C16_NoReservation ==
    /\ (\A c \in Calls : commits(c, UserKey) = << >>) => usage[UserKey] = 0
    /\ \A c \in Calls :
          at[c] = "post" => ENABLED (Post(c) /\ err'[c] = NoErr)

\* Two calls were shown the same available quantity before either had
\* committed (both saw a total of 0), each recorded a positive delta within
\* it, both committed, and the ledger counter is beyond it.
C16_Witness ==
    /\ allFinished
    /\ \A c \in Calls :
          /\ Has(hist[c], "postOk")
          /\ ~cusOf(c).Billable
          /\ Get(newCtx[c].owner).StorageUsed = 0
          /\ Get(newCtx[c].owner).StorageAvailable = FreeN
          /\ Get(newCtx[c].owner).StorageDelta > 0
          /\ Get(newCtx[c].owner).StorageDelta <= FreeN
    /\ usage[UserKey] > FreeN

\* C17: provisioning is not synchronised across calls: a call that is about
\* to ask for an identity or to persist its user can always do so, whatever
\* the other calls are doing; every successful request issues an identity
\* and every successful CreateUser persists a record.
C17_ProvisioningUnsynchronised ==
    /\ \A c \in Calls :
          /\ at[c] = "powCreate" => ENABLED PowCreate(c)
          /\ at[c] = "createUser" => ENABLED CreateUser(c)
    /\ issued = successCount(Calls, "Users.Create")
    /\ Len(users) = successCount(Calls, "CreateUser")

\* Two calls of the same never-persisted user each obtained an identity and
\* each had CreateUser persist a record for the one key.
C17_Witness ==
    /\ issued = 2
    /\ Len(users) = 2
    /\ users[1].Key = users[2].Key
    /\ users[1].PowInfo # users[2].PowInfo
    /\ \A c \in Calls :
          /\ isNewUser(Get(ctx[c].account))
          /\ Len(opsNamed(c, "Users.Create")) = 1
          /\ Len(opsNamed(c, "CreateUser")) = 1
          /\ opsNamed(c, "CreateUser")[1].key = UserKey

\* An operation that failed, other than a lookup that found no customer.
failed(o) == o.err # NoErr /\ ~(o.op = "GetCustomer" /\ o.err = ErrNoDocuments)

\* C18: within one call Users.Create, CreateUser, CreateCustomer and
\* IncCustomerUsage are each invoked at most once and GetCustomer at most
\* twice, the second time only right after a successful CreateCustomer that
\* followed a first lookup without documents; an operation that fails is
\* the last one of the call, and the call ends with its error.
C18_NoRetry ==
    \A c \in Calls :
       /\ \A name \in {"Users.Create", "CreateUser", "CreateCustomer", "IncCustomerUsage"} :
             Len(opsNamed(c, name)) <= 1
       /\ Len(opsNamed(c, "GetCustomer")) <= 2
       /\ \A i, j \in DOMAIN ops[c] :
             (i < j /\ ops[c][i].op = "GetCustomer" /\ ops[c][j].op = "GetCustomer") =>
                /\ j = i + 2
                /\ ops[c][i].err = ErrNoDocuments
                /\ ops[c][i + 1].op = "CreateCustomer"
                /\ ops[c][i + 1].err = NoErr
       /\ \A i \in DOMAIN ops[c] :
             failed(ops[c][i]) =>
                /\ i = Len(ops[c])
                /\ at[c] = "done"
                /\ err[c] = ops[c][i].err

C18_Witness ==
    \E c \in Calls :
       /\ Len(ops[c]) = 5
       /\ Len(opsNamed(c, "GetCustomer")) = 2
       /\ ops[c][5].err = ErrUnavailable
       /\ at[c] = "done"

\* C19: with a provisioning service configured the user is persisted only
\* right after an identity was obtained in the same call; when the request
\* for the identity fails the pre-hook returns that error, nothing is
\* persisted, the ledger is not called and the handler does not run.
C19_ProvisionBeforePersist ==
    \A c \in Calls :
       /\ \A i \in DOMAIN ops[c] :
             (pc /\ ops[c][i].op = "CreateUser") =>
                /\ i = 2
                /\ ops[c][1].op = "Users.Create"
                /\ ops[c][1].err = NoErr
                /\ IsSome(powInfo[c])
       /\ (\E i \in DOMAIN ops[c] :
              ops[c][i].op = "Users.Create" /\ ops[c][i].err # NoErr) =>
             /\ err[c] = ErrPow
             /\ at[c] = "done"
             /\ Len(ops[c]) = 1
             /\ hist[c] = << "pre", "preErr" >>
             /\ users = << >>
             /\ created = {}
             /\ cus[c] = None

C19_Witness ==
    \E c \in Calls :
       /\ pc
       /\ IsSome(ctx[c].account)
       /\ isNewUser(Get(ctx[c].account))
       /\ ops[c] = << Op("Users.Create", "", None, None, ErrPow) >>
       /\ err[c] = ErrPow

\* The snapshot o but for the delta the handler records in it.
sansDelta(o) == IF IsSome(o) THEN Some([Get(o) EXCEPT !.StorageDelta = 0]) ELSE None

\* C20: for a method that is not a storage-write method the pre-hook
\* attaches no snapshot and the post-hook makes no IncCustomerUsage call;
\* and no IncCustomerUsage call is made when metering is disabled, when the
\* context holds no account or when it holds no snapshot.
C20_OnlyStorageWrites ==
    \A c \in Calls :
       at[c] # "idle" =>
          /\ method[c] \notin StorageWriteMethods =>
                /\ sansDelta(newCtx[c].owner) = sansDelta(ctx[c].owner)
                /\ opsNamed(c, "IncCustomerUsage") = << >>
          /\ (~bc \/ ~IsSome(ctx[c].account) \/ ~IsSome(newCtx[c].owner)) =>
                opsNamed(c, "IncCustomerUsage") = << >>
          /\ sansDelta(newCtx[c].owner) # sansDelta(ctx[c].owner) =>
                method[c] \in StorageWriteMethods /\ IsSome(cus[c])

C20_Witness ==
    \E c \in Calls :
       /\ method[c] \in RecordWriteMethods
       /\ bc
       /\ IsSome(cus[c])
       /\ IsSome(ctx[c].owner)
       /\ Get(newCtx[c].owner).StorageDelta = MaxDelta
       /\ Has(hist[c], "postOk")

====
